---- MODULE Spec2Model ----
(***************************************************************************)
(* Belize public holidays (holidays/countries/belize.py): the per-year     *)
(* population pass, its two observed-date policies and the holiday set     *)
(* they commit into.                                                       *)
(*                                                                         *)
(* A date is its proleptic Gregorian ordinal (datetime.date.toordinal), a  *)
(* holiday name is a string, the holiday set is a set of (dt, name)        *)
(* entries.                                                                *)
(***************************************************************************)
EXTENDS Integers, Sequences, FiniteSets, TLC

VARIABLES
    year,       \* the year being populated
    observed,   \* self.observed
    holidays,   \* the holiday set: entries [dt, name]
    pc,         \* the statement of _populate about to run
    run,        \* 1 for the first pass over the set, 2 for a second one, ...
    dup,        \* DuplicateDate was raised in this pass
    nominal,    \* arguments of the last call made by _populate
    call,       \* arguments of the last call of Belize._add_holiday
    committed   \* arguments of the last call of super()._add_holiday

vars == <<year, observed, holidays, pc, run, dup, nominal, call, committed>>

\* ---------------------------------------------------------------- bounds
FirstYear == 1978
LastYear == 2032
MaxRuns == 2

\* ------------------------------------------------------------- constants
JAN == 1
MAR == 3
MAY == 5
AUG == 8
SEP == 9
OCT == 10
NOV == 11
MON == 0

\* ----------------------------------------------------------------- dates
is_leap(y) == y % 4 = 0 /\ (y % 100 # 0 \/ y % 400 = 0)

days_before_year(y) ==
    LET p == y - 1 IN p * 365 + (p \div 4) - (p \div 100) + (p \div 400)

days_before_month(y, m) ==
    <<0, 31, 59, 90, 120, 151, 181, 212, 243, 273, 304, 334>>[m]
        + (IF m > 2 /\ is_leap(y) THEN 1 ELSE 0)

\* datetime.date(y, m, d), as its ordinal
date(y, m, d) == days_before_year(y) + days_before_month(y, m) + d

\* datetime.date.weekday(): Monday is 0, Sunday is 6
weekday(dt) == (dt + 6) % 7

_is_tuesday(dt) == weekday(dt) = 1
_is_wednesday(dt) == weekday(dt) = 2
_is_thursday(dt) == weekday(dt) = 3
_is_friday(dt) == weekday(dt) = 4
_is_sunday(dt) == weekday(dt) = 6

\* The n-th occurrence of weekday w strictly after (n > 0) or strictly
\* before (n < 0) from_dt, by 7-day stepping.
_get_nth_weekday_from(n, w, from_dt) ==
    IF n > 0
    THEN from_dt + (n - 1) * 7 + (((w - weekday(from_dt) + 6) % 7) + 1)
    ELSE from_dt + (n + 1) * 7 - (((weekday(from_dt) - w + 6) % 7) + 1)

\* Easter Sunday of year y (Gregorian computus)
easter(y) ==
    LET g == y % 19
        c == y \div 100
        h == (c - (c \div 4) - ((8 * c + 13) \div 25) + 19 * g + 15) % 30
        i == h - (h \div 28)
                  * (1 - (h \div 28) * (29 \div (h + 1)) * ((21 - g) \div 11))
        j == (y + (y \div 4) + i + 2 - c + (c \div 4)) % 7
        p == i - j
        d == 1 + ((p + 27 + ((p + 6) \div 40)) % 31)
        m == 3 + ((p + 26) \div 30)
    IN  date(y, m, d)

\* "%s (Observed)" % name
Observed(name) == name \o " (Observed)"

\* ----------------------------------------------------------- holiday set
\* dt in self
contains(dt) == \E e \in holidays : e.dt = dt

\* _populate with Christmas Day added before Boxing Day.
OrderChristmasFirst ==
    << "NewYearsDay", "GeorgePriceDay", "NationalHeroesDay", "GoodFriday",
       "HolySaturday", "EasterMonday", "LabourDay", "CommonwealthDay",
       "EmancipationDay", "SaintGeorgesCayeDay", "IndependenceDay",
       "PanAmericanDay", "GarifunaSettlementDay", "ChristmasDay",
       "BoxingDay" >>

\* The statements of _populate that add a holiday, in program order.
Order ==
    << "NewYearsDay", "GeorgePriceDay", "NationalHeroesDay", "GoodFriday",
       "HolySaturday", "EasterMonday", "LabourDay", "CommonwealthDay",
       "EmancipationDay", "SaintGeorgesCayeDay", "IndependenceDay",
       "PanAmericanDay", "GarifunaSettlementDay", "BoxingDay",
       "ChristmasDay" >>

IndexOf(label) == CHOOSE i \in 1..Len(Order) : Order[i] = label

\* The statement that follows `label` in _populate.
After(label) ==
    IF IndexOf(label) = Len(Order) THEN "done" ELSE Order[IndexOf(label) + 1]

\* HolidayBase._add_holiday: commit (dt, name) into the set; a date that is
\* already occupied raises DuplicateDate and ends the pass.
super_add_holiday(name, dt) ==
    /\ committed' = [name |-> name, dt |-> dt]
    /\ IF contains(dt)
       THEN /\ holidays' = holidays
            /\ dup' = TRUE
            /\ pc' = "raised"
       ELSE /\ holidays' = holidays \cup {[dt |-> dt, name |-> name]}
            /\ dup' = dup
            /\ pc' = After(pc)

\* _add_holiday without the collision check: a Sunday always shifts.
_add_holiday_no_collision_check(name, dt) ==
    /\ call' = [name |-> name, dt |-> dt]
    /\ IF observed /\ _is_sunday(dt)
       THEN super_add_holiday(Observed(name), dt + 1)
       ELSE super_add_holiday(name, dt)

\* _add_holiday testing dt, not dt + 1, for the collision.
_add_holiday_checks_own_date(name, dt) ==
    /\ call' = [name |-> name, dt |-> dt]
    /\ IF observed /\ _is_sunday(dt) /\ ~contains(dt)
       THEN super_add_holiday(Observed(name), dt + 1)
       ELSE super_add_holiday(name, dt)

\* _add_holiday shifting the date without renaming the holiday.
_add_holiday_no_rename(name, dt) ==
    /\ call' = [name |-> name, dt |-> dt]
    /\ IF observed /\ _is_sunday(dt) /\ ~contains(dt + 1)
       THEN super_add_holiday(name, dt + 1)
       ELSE super_add_holiday(name, dt)

\* _add_holiday testing for Saturday instead of Sunday.
_add_holiday_saturday(name, dt) ==
    /\ call' = [name |-> name, dt |-> dt]
    /\ IF observed /\ weekday(dt) = 5 /\ ~contains(dt + 1)
       THEN super_add_holiday(Observed(name), dt + 1)
       ELSE super_add_holiday(name, dt)

\* _add_holiday shifting whether or not observed mode is on.
_add_holiday_ignores_observed(name, dt) ==
    /\ call' = [name |-> name, dt |-> dt]
    /\ IF _is_sunday(dt) /\ ~contains(dt + 1)
       THEN super_add_holiday(Observed(name), dt + 1)
       ELSE super_add_holiday(name, dt)

\* _add_holiday adding nothing when the Monday is taken.
_add_holiday_drops_on_collision(name, dt) ==
    /\ call' = [name |-> name, dt |-> dt]
    /\ IF observed /\ _is_sunday(dt) /\ contains(dt + 1)
       THEN /\ pc' = After(pc)
            /\ UNCHANGED <<holidays, dup, committed>>
       ELSE IF observed /\ _is_sunday(dt)
            THEN super_add_holiday(Observed(name), dt + 1)
            ELSE super_add_holiday(name, dt)

\* Belize._add_holiday: the simple Sunday shift.
_add_holiday(name, dt) ==
    /\ call' = [name |-> name, dt |-> dt]
    /\ IF observed /\ _is_sunday(dt) /\ ~contains(dt + 1)
       THEN super_add_holiday(Observed(name), dt + 1)
       ELSE super_add_holiday(name, dt)

\* _add_movable_holiday with Thursday left out of the second branch.
_add_movable_holiday_without_thursday(name, dt) ==
    IF observed /\ (_is_friday(dt) \/ _is_sunday(dt))
    THEN _add_holiday(Observed(name), _get_nth_weekday_from(1, MON, dt))
    ELSE IF observed /\ (_is_tuesday(dt) \/ _is_wednesday(dt))
         THEN _add_holiday(Observed(name), _get_nth_weekday_from(-1, MON, dt))
         ELSE _add_holiday(name, dt)

\* _add_movable_holiday with Sunday left to the simple policy.
_add_movable_holiday_without_sunday(name, dt) ==
    IF observed /\ _is_friday(dt)
    THEN _add_holiday(Observed(name), _get_nth_weekday_from(1, MON, dt))
    ELSE IF observed
            /\ (_is_tuesday(dt) \/ _is_wednesday(dt) \/ _is_thursday(dt))
         THEN _add_holiday(Observed(name), _get_nth_weekday_from(-1, MON, dt))
         ELSE _add_holiday(name, dt)

\* Belize._add_movable_holiday: the extended weekday shift, then the
\* simple one.
_add_movable_holiday(name, dt) ==
    IF observed /\ (_is_friday(dt) \/ _is_sunday(dt))
    THEN _add_holiday(Observed(name), _get_nth_weekday_from(1, MON, dt))
    ELSE IF observed
            /\ (_is_tuesday(dt) \/ _is_wednesday(dt) \/ _is_thursday(dt))
         THEN _add_holiday(Observed(name), _get_nth_weekday_from(-1, MON, dt))
         ELSE _add_holiday(name, dt)

\* A statement of _populate whose year guard is false.
Skip ==
    /\ pc' = After(pc)
    /\ UNCHANGED <<holidays, dup, nominal, call, committed>>

\* A statement of _populate adding a holiday under the simple policy.
Simple(name, dt) ==
    /\ nominal' = [name |-> name, dt |-> dt]
    /\ _add_holiday(name, dt)

\* A statement of _populate adding a holiday under the extended policy.
Movable(name, dt) ==
    /\ nominal' = [name |-> name, dt |-> dt]
    /\ _add_movable_holiday(name, dt)

\* ---------------------------------------------------------------- state
Years == FirstYear..LastYear

NoCall == [name |-> "", dt |-> 0]

Init ==
    /\ year \in Years
    /\ observed \in BOOLEAN
    /\ holidays = {}
    /\ pc = "start"
    /\ run = 1
    /\ dup = FALSE
    /\ nominal = NoCall
    /\ call = NoCall
    /\ committed = NoCall

\* _populate with the independence guard off by one year.
PopulateFrom1981 ==
    /\ pc = "start"
    /\ pc' = IF year < 1981 THEN "done" ELSE Order[1]
    /\ UNCHANGED <<year, observed, holidays, run, dup, nominal, call, committed>>

\* _populate(year): the independence guard.
Populate ==
    /\ pc = "start"
    /\ pc' = IF year <= 1981 THEN "done" ELSE Order[1]
    /\ UNCHANGED <<year, observed, holidays, run, dup, nominal, call, committed>>

\* The statements of _populate, one action each. A group helper
\* (_add_new_years_day, _add_good_friday, _add_holy_saturday,
\* _add_easter_monday, _add_labor_day, _add_christmas_day_two,
\* _add_christmas_day) resolves its holiday's date (January 1, Easter -2,
\* -1, +1, May 1, December 26, December 25) and calls self._add_holiday,
\* which is Belize._add_holiday: the simple policy.
NewYearsDay ==
    /\ pc = "NewYearsDay"
    /\ Simple("New Year's Day", date(year, JAN, 1))
    /\ UNCHANGED <<year, observed, run>>

GeorgePriceDay ==
    /\ pc = "GeorgePriceDay"
    /\ IF year >= 2021
       THEN Simple("George Price Day", date(year, JAN, 15))
       ELSE Skip
    /\ UNCHANGED <<year, observed, run>>

NationalHeroesDay ==
    /\ pc = "NationalHeroesDay"
    /\ Movable("National Heroes and Benefactors Day", date(year, MAR, 9))
    /\ UNCHANGED <<year, observed, run>>

GoodFriday ==
    /\ pc = "GoodFriday"
    /\ Simple("Good Friday", easter(year) - 2)
    /\ UNCHANGED <<year, observed, run>>

HolySaturday ==
    /\ pc = "HolySaturday"
    /\ Simple("Holy Saturday", easter(year) - 1)
    /\ UNCHANGED <<year, observed, run>>

EasterMonday ==
    /\ pc = "EasterMonday"
    /\ Simple("Easter Monday", easter(year) + 1)
    /\ UNCHANGED <<year, observed, run>>

LabourDay ==
    /\ pc = "LabourDay"
    /\ Simple("Labour Day", date(year, MAY, 1))
    /\ UNCHANGED <<year, observed, run>>

CommonwealthDay ==
    /\ pc = "CommonwealthDay"
    /\ IF year <= 2021
       THEN Movable("Commonwealth Day", date(year, MAY, 24))
       ELSE Skip
    /\ UNCHANGED <<year, observed, run>>

EmancipationDay ==
    /\ pc = "EmancipationDay"
    /\ IF year >= 2021
       THEN Movable("Emancipation Day", date(year, AUG, 1))
       ELSE Skip
    /\ UNCHANGED <<year, observed, run>>

SaintGeorgesCayeDay ==
    /\ pc = "SaintGeorgesCayeDay"
    /\ Simple("Saint George's Caye Day", date(year, SEP, 10))
    /\ UNCHANGED <<year, observed, run>>

IndependenceDay ==
    /\ pc = "IndependenceDay"
    /\ Simple("Independence Day", date(year, SEP, 21))
    /\ UNCHANGED <<year, observed, run>>

PanAmericanDay ==
    /\ pc = "PanAmericanDay"
    /\ Movable(IF year >= 2021
               THEN "Indigenous Peoples' Resistance Day"
               ELSE "Pan American Day",
               date(year, OCT, 12))
    /\ UNCHANGED <<year, observed, run>>

GarifunaSettlementDay ==
    /\ pc = "GarifunaSettlementDay"
    /\ Simple("Garifuna Settlement Day", date(year, NOV, 19))
    /\ UNCHANGED <<year, observed, run>>

BoxingDay ==
    /\ pc = "BoxingDay"
    /\ Simple("Boxing Day", date(year, 12, 26))
    /\ UNCHANGED <<year, observed, run>>

ChristmasDay ==
    /\ pc = "ChristmasDay"
    /\ Simple("Christmas Day", date(year, 12, 25))
    /\ UNCHANGED <<year, observed, run>>

\* _populate(year) called again on the set an earlier pass left.
Repopulate ==
    /\ pc \in {"done", "raised"}
    /\ run < MaxRuns
    /\ run' = run + 1
    /\ pc' = "start"
    /\ dup' = FALSE
    /\ UNCHANGED <<year, observed, holidays, nominal, call, committed>>

Next ==
    \/ Populate
    \/ NewYearsDay
    \/ GeorgePriceDay
    \/ NationalHeroesDay
    \/ GoodFriday
    \/ HolySaturday
    \/ EasterMonday
    \/ LabourDay
    \/ CommonwealthDay
    \/ EmancipationDay
    \/ SaintGeorgesCayeDay
    \/ IndependenceDay
    \/ PanAmericanDay
    \/ GarifunaSettlementDay
    \/ BoxingDay
    \/ ChristmasDay
    \/ Repopulate

Spec == Init /\ [][Next]_vars

\* ------------------------------------------------------- reference tables
SimpleNames ==
    { "New Year's Day", "George Price Day", "Good Friday", "Holy Saturday",
      "Easter Monday", "Labour Day", "Saint George's Caye Day",
      "Independence Day", "Garifuna Settlement Day", "Boxing Day",
      "Christmas Day" }

MovableNames ==
    { "National Heroes and Benefactors Day", "Commonwealth Day",
      "Emancipation Day", "Indigenous Peoples' Resistance Day",
      "Pan American Day" }

CanonicalNames == SimpleNames \cup MovableNames

ObservedNames == { n \o " (Observed)" : n \in CanonicalNames }

\* The statutory (pre-adjustment) date of a holiday in year y.
NominalDate(n, y) ==
    CASE n = "New Year's Day" -> date(y, 1, 1)
      [] n = "George Price Day" -> date(y, 1, 15)
      [] n = "National Heroes and Benefactors Day" -> date(y, 3, 9)
      [] n = "Good Friday" -> easter(y) - 2
      [] n = "Holy Saturday" -> easter(y) - 1
      [] n = "Easter Monday" -> easter(y) + 1
      [] n = "Labour Day" -> date(y, 5, 1)
      [] n = "Commonwealth Day" -> date(y, 5, 24)
      [] n = "Emancipation Day" -> date(y, 8, 1)
      [] n = "Saint George's Caye Day" -> date(y, 9, 10)
      [] n = "Independence Day" -> date(y, 9, 21)
      [] n = "Indigenous Peoples' Resistance Day" -> date(y, 10, 12)
      [] n = "Pan American Day" -> date(y, 10, 12)
      [] n = "Garifuna Settlement Day" -> date(y, 11, 19)
      [] n = "Boxing Day" -> date(y, 12, 26)
      [] n = "Christmas Day" -> date(y, 12, 25)

Entry(n, d) == [dt |-> d, name |-> n]
Args(n, d) == [name |-> n, dt |-> d]

\* Holiday n is in the set, under its own name or its observed one.
Has(n) == \E e \in holidays : e.name \in {n, n \o " (Observed)"}

Dec25 == date(year, 12, 25)
Dec26 == date(year, 12, 26)

\* The first pass over an initially empty set has returned normally.
FirstPassDone == run = 1 /\ pc = "done"

\* ----------------------------------------------------------------- C1
\* C1: for every year from 1982 through 2030, the first pass over an empty
\* set with observed mode on never commits to an occupied date: no
\* DuplicateDate is raised at any step, every date of the set holds one
\* entry, and the finished pass has committed every eligible holiday.
C1_NoDuplicateDate ==
    (run = 1 /\ observed /\ year \in 1982..2030) =>
        /\ ~dup
        /\ pc # "raised"
        /\ \A e, f \in holidays : e.dt = f.dt => e = f
        /\ pc = "done" =>
              Cardinality(holidays) =
                  13 + (IF year >= 2021 THEN 2 ELSE 0)
                     - (IF year > 2021 THEN 1 ELSE 0)

C1_Witness ==
    /\ FirstPassDone /\ observed /\ year = 2022
    /\ Cardinality(holidays) = 14
    /\ contains(Dec25) /\ contains(Dec26)

\* ----------------------------------------------------------------- C2
\* C2: in a year >= 1982 whose December 25 is a Sunday, with observed mode
\* on, Boxing Day is committed before Christmas Day and holds December 26
\* under its plain name; Christmas Day is then committed on December 25
\* without the suffix, and December 26 holds Boxing Day alone.
C2_BoxingBeforeChristmas ==
    (run = 1 /\ observed /\ year >= 1982 /\ _is_sunday(Dec25)) =>
        /\ Has("Christmas Day") => Entry("Boxing Day", Dec26) \in holidays
        /\ pc = "ChristmasDay" => Entry("Boxing Day", Dec26) \in holidays
        /\ nominal.name = "Christmas Day" =>
              /\ committed = Args("Christmas Day", Dec25)
              /\ pc = "done"
        /\ pc = "done" =>
              /\ Entry("Christmas Day", Dec25) \in holidays
              /\ {e \in holidays : e.dt = Dec26}
                    = {Entry("Boxing Day", Dec26)}
              /\ ~\E e \in holidays : e.name = "Christmas Day (Observed)"

C2_Witness ==
    /\ FirstPassDone /\ observed /\ year >= 1982 /\ _is_sunday(Dec25)
    /\ Entry("Christmas Day", Dec25) \in holidays
    /\ Entry("Boxing Day", Dec26) \in holidays

\* ----------------------------------------------------------------- C3
\* The extended policy's result for nominal (n, d), by the weekday of d.
ExtendedExpected(n, d) ==
    CASE weekday(d) = 4 -> Args(n \o " (Observed)", d + 3)
      [] weekday(d) = 6 -> Args(n \o " (Observed)", d + 1)
      [] weekday(d) = 1 -> Args(n \o " (Observed)", d - 1)
      [] weekday(d) = 2 -> Args(n \o " (Observed)", d - 2)
      [] weekday(d) = 3 -> Args(n \o " (Observed)", d - 3)
      [] weekday(d) \in {0, 5} -> Args(n, d)

\* C3: with observed mode on, _add_movable_holiday maps a nominal date d by
\* its weekday: Friday to d+3, Sunday to d+1, Tuesday to d-1, Wednesday to
\* d-2, Thursday to d-3, each renamed "<name> (Observed)" and landing on a
\* Monday; Monday and Saturday stay on d under the plain name.
C3_ExtendedShift ==
    (observed /\ nominal.name \in MovableNames) =>
        /\ committed = ExtendedExpected(nominal.name, nominal.dt)
        /\ committed.name # nominal.name => weekday(committed.dt) = MON

C3_Witness ==
    /\ observed /\ nominal.name \in MovableNames
    /\ _is_thursday(nominal.dt)
    /\ committed = Args(nominal.name \o " (Observed)", nominal.dt - 3)
    /\ Entry(committed.name, committed.dt) \in holidays

\* ----------------------------------------------------------------- C4
\* The statement at pc adds a holiday under the simple policy this year.
SimpleStatement ==
    /\ pc \in { "NewYearsDay", "GeorgePriceDay", "GoodFriday", "HolySaturday",
                "EasterMonday", "LabourDay", "SaintGeorgesCayeDay",
                "IndependenceDay", "GarifunaSettlementDay", "BoxingDay",
                "ChristmasDay" }
    /\ pc = "GeorgePriceDay" => year >= 2021

\* C4: with observed mode on, a simple-policy statement with nominal (n, d)
\* commits ("n (Observed)", d+1) when d is a Sunday and d+1 is not in the
\* set as it stands at the call, (n, d) when d is a Sunday and d+1 is in
\* the set, and (n, d) when d is not a Sunday; only the set before the call
\* decides, and a free target date gains exactly that entry.
C4_SimpleShift ==
    [][(observed /\ SimpleStatement /\ pc' # pc) =>
          LET n == nominal'.name
              d == nominal'.dt
          IN  /\ n \in SimpleNames
              /\ d = NominalDate(n, year)
              /\ committed' =
                    IF _is_sunday(d) /\ ~\E e \in holidays : e.dt = d + 1
                    THEN Args(n \o " (Observed)", d + 1)
                    ELSE Args(n, d)
              /\ (~\E e \in holidays : e.dt = committed'.dt) =>
                    holidays' = holidays
                        \cup {Entry(committed'.name, committed'.dt)}
      ]_vars

C4_Witness ==
    /\ observed /\ run = 1
    /\ nominal = Args("Christmas Day", Dec25)
    /\ _is_sunday(Dec25)
    /\ committed = nominal
    /\ Entry("Christmas Day", Dec25) \in holidays
    /\ contains(Dec26)

\* ----------------------------------------------------------------- C5
\* C5: a year <= 1981 yields an empty set; a year >= 1982 a non-empty set
\* with New Year's Day and Good Friday; George Price Day iff year >= 2021,
\* Commonwealth Day iff 1982 <= year <= 2021, Emancipation Day iff
\* year >= 2021, and the October 12 holiday is Indigenous Peoples'
\* Resistance Day iff year >= 2021, Pan American Day otherwise.
C5_YearEligibility ==
    FirstPassDone =>
        /\ year <= 1981 => holidays = {}
        /\ year >= 1982 =>
              /\ holidays # {}
              /\ Has("New Year's Day")
              /\ Has("Good Friday")
              /\ Has("George Price Day") <=> year >= 2021
              /\ Has("Commonwealth Day") <=> year <= 2021
              /\ Has("Emancipation Day") <=> year >= 2021
              /\ Has("Indigenous Peoples' Resistance Day") <=> year >= 2021
              /\ Has("Pan American Day") <=> year < 2021

C5_Witness ==
    /\ FirstPassDone /\ year = 2021
    /\ Has("George Price Day")
    /\ Has("Commonwealth Day")
    /\ Has("Emancipation Day")
    /\ Has("Indigenous Peoples' Resistance Day")

\* ----------------------------------------------------------------- C6
\* C6: with observed mode off both policies commit every holiday unchanged:
\* each call commits its nominal (name, date), every entry of the set lies
\* on its nominal date under its canonical name, and no name carries the
\* "(Observed)" suffix, whatever the weekday and whatever the set holds.
C6_ObservedOff ==
    ~observed =>
        /\ nominal # NoCall => (call = nominal /\ committed = nominal)
        /\ \A e \in holidays :
              /\ e.name \in CanonicalNames
              /\ e.name \notin ObservedNames
              /\ e.dt = NominalDate(e.name, year)
        /\ (FirstPassDone /\ year >= 1982) =>
              Cardinality(holidays) =
                  13 + (IF year >= 2021 THEN 2 ELSE 0)
                     - (IF year > 2021 THEN 1 ELSE 0)

C6_Witness ==
    /\ ~observed /\ FirstPassDone /\ year >= 1982
    /\ \E e \in holidays : _is_sunday(e.dt) /\ e.name \in SimpleNames
    /\ \E e \in holidays : _is_thursday(e.dt) /\ e.name \in MovableNames

\* ----------------------------------------------------------------- C7
\* C7 as stated: a second pass over the set the first pass produced leaves
\* the set with exactly the same entries.
C7_RerunIdempotent ==
    [][run' > 1 => holidays' = holidays]_vars

\* An entry the simple Sunday shift moved and renamed.
SimpleShifted == \E e \in holidays : e.name \in {Observed(n) : n \in SimpleNames}

\* C7 amended: a later pass leaves the set unchanged provided no entry of
\* the set was moved by the simple Sunday shift (in particular whenever
\* observed mode is off).
C7_RerunIdempotentUnlessShifted ==
    [][(run' > 1 /\ ~SimpleShifted) => holidays' = holidays]_vars

C7_Witness ==
    /\ run = 2 /\ observed /\ pc = "raised" /\ dup
    /\ ~SimpleShifted
    /\ Cardinality(holidays) >= 13
    /\ \E e \in holidays : e.name \in ObservedNames

\* ----------------------------------------------------------------- C8
\* C8 as stated: Boxing Day's date is computed from the effective date of
\* the Christmas Day entry, which is already resolved when Boxing Day is
\* committed.
C8_BoxingFromChristmasEffective ==
    \A b \in holidays :
        b.name \in {"Boxing Day", "Boxing Day (Observed)"} =>
            \E c \in holidays :
                /\ c.name \in {"Christmas Day", "Christmas Day (Observed)"}
                /\ b.dt = c.dt + 1

\* C8 amended: Boxing Day's date is computed from its own nominal date
\* December 26 by the simple Sunday shift (December 27, renamed, when
\* December 26 is a Sunday and observed mode is on), and it is committed
\* before Christmas Day is resolved.
C8_BoxingFromNominal ==
    run = 1 =>
        /\ \A b \in holidays :
              b.name \in {"Boxing Day", "Boxing Day (Observed)"} =>
                  b = IF observed /\ _is_sunday(Dec26)
                      THEN Entry("Boxing Day (Observed)", Dec26 + 1)
                      ELSE Entry("Boxing Day", Dec26)
        /\ pc = "ChristmasDay" => (Has("Boxing Day") /\ ~Has("Christmas Day"))
        /\ Has("Christmas Day") => Has("Boxing Day")

C8_Witness ==
    /\ run = 1 /\ observed /\ pc = "ChristmasDay"
    /\ _is_sunday(Dec26)
    /\ Entry("Boxing Day (Observed)", Dec26 + 1) \in holidays
    /\ ~Has("Christmas Day")

\* ----------------------------------------------------------------- C9
\* C9: the (name, date) _add_movable_holiday hands to _add_holiday lies,
\* with observed mode on, on a Monday or a Saturday and never on a Sunday,
\* so the chained simple shift does not fire: the date and name committed
\* are the ones handed over, and no name of the set carries the suffix
\* twice.
C9_ChainedShiftNeverFires ==
    /\ (observed /\ nominal.name \in MovableNames) =>
          /\ weekday(call.dt) \in {MON, 5}
          /\ ~_is_sunday(call.dt)
          /\ committed = call
    /\ \A e \in holidays : e.name \in CanonicalNames \cup ObservedNames

C9_Witness ==
    /\ observed /\ nominal.name \in MovableNames
    /\ _is_sunday(nominal.dt)
    /\ call = Args(nominal.name \o " (Observed)", nominal.dt + 1)
    /\ committed = call
    /\ Entry(call.name, call.dt) \in holidays

\* ---------------------------------------------------------------- C10
\* C10: in the first pass over an empty set with observed mode on, for a
\* year >= 1982, the only entry that can lie on a Sunday is Christmas Day
\* on December 25, with Boxing Day holding December 26; every entry named
\* "... (Observed)" lies on a Monday.
C10_SundayOnlyChristmas ==
    (run = 1 /\ observed /\ year >= 1982) =>
        \A e \in holidays :
            /\ _is_sunday(e.dt) =>
                  /\ e = Entry("Christmas Day", Dec25)
                  /\ Entry("Boxing Day", Dec26) \in holidays
            /\ e.name \in ObservedNames => weekday(e.dt) = MON

C10_Witness ==
    /\ FirstPassDone /\ observed /\ year >= 1982
    /\ \E e \in holidays : _is_sunday(e.dt) /\ e.name = "Christmas Day"
    /\ \E e \in holidays : e.name \in ObservedNames /\ weekday(e.dt) = MON

====
